---- MODULE Spec2Model ----
(***************************************************************************)
(* Prediction_Analyzer: the Trade entity, the position/PnL accounting      *)
(* (pnl.calculate_pnl, charts.enhanced.generate_enhanced_chart), the       *)
(* summary aggregators (pnl.calculate_global_pnl_summary,                  *)
(* pnl.calculate_market_pnl_summary), the JSON writers                     *)
(* (trade_loader.save_trades, reporting.report_data.export_to_json), the   *)
(* filters (filters.filter_by_date, filter_by_trade_type, filter_by_side,  *)
(* filter_by_pnl, AnalysisService.apply_filters), utils.math_utils, the    *)
(* loader (trade_loader._parse_timestamp, trade_loader.load_trades), the   *)
(* resolution inference (inference.infer_resolved_side_from_trades,        *)
(* inference.detect_market_resolution) and the pagination loop of          *)
(* utils.data.fetch_trade_history.                                         *)
(*                                                                         *)
(* A caller holds one list of Trade objects (trades) and calls the         *)
(* functions on it; ret is the value the last call returned, or, for       *)
(* fetch_trade_history, the call in progress.                              *)
(*                                                                         *)
(* Numbers.  The float fields of a Trade are drawn from small sets of      *)
(* integers (finite, exactly representable floats).  A quotient the code   *)
(* computes is kept exact, as a record [num, den] with den > 0.            *)
(*                                                                         *)
(* Timestamps.  A datetime is [kind |-> "datetime", t |-> n, us |-> u,     *)
(* tzinfo |-> z]: n the seconds and u the microseconds of its wall clock,  *)
(* z "None" for a naive datetime.  The ISO-8601 string isoformat() renders *)
(* is the same record with kind "str" (the strings of naive datetimes      *)
(* order as the instants do).  Two values of different kinds do not        *)
(* compare: Python raises TypeError.                                       *)
(***************************************************************************)
EXTENDS Integers, Sequences, FiniteSets, TLC

VARIABLES
    trades,     \* the caller's list of Trade objects: their current fields
    created,    \* the fields each Trade of the list had when it was created
    ret         \* the value returned (or the error raised) by the last call

vars == <<trades, created, ret>>

-----------------------------------------------------------------------------
(* Bounds of the model *)

\* longest list in the accounting specification
MaxTrades == 2
\* longest list in the summary specification
MaxSummaryTrades == 3
\* longest list in the persistence specification
MaxPersistTrades == 2

-----------------------------------------------------------------------------
(* Values *)

\* a naive datetime on a whole second
Datetime(n) == [kind |-> "datetime", t |-> n, us |-> 0, tzinfo |-> "None"]

\* datetime.isoformat(): the ISO-8601 string of a datetime
isoformat(ts) == [ts EXCEPT !.kind = "str"]

Trade(timestamp, price, shares, cost, type, side, pnl) ==
    [market |-> "Test Market", market_slug |-> "test-market",
     timestamp |-> timestamp, price |-> price, shares |-> shares,
     cost |-> cost, type |-> type, side |-> side, pnl |-> pnl,
     tx_hash |-> "None"]

Sides == {"YES", "NO"}

\* The lists pnl.py and enhanced.py test a type against.
BuyTypes == {"Buy", "Market Buy", "Limit Buy"}
SellTypes == {"Sell", "Market Sell", "Limit Sell"}

\* Types the callers build trades with: canonical variants, and "Claim",
\* a type the loader passes through and inference.py looks for.
AcctTypes == {"Buy", "Sell", "Claim"}

Times == {1, 2}

\* (price in cents, shares, cost, pnl) of a trade
Fills == {[price |-> 60, shares |-> 10, cost |-> 100, pnl |-> 10],
          [price |-> 70, shares |-> 10, cost |-> 70, pnl |-> -5],
          [price |-> 30, shares |-> 4, cost |-> 3, pnl |-> 0]}

AcctTrades ==
    {Trade(Datetime(n), f.price, f.shares, f.cost, ty, sd, f.pnl) :
        n \in Times, f \in Fills, ty \in AcctTypes, sd \in Sides}

\* Trades as tests/conftest.py sample_trade_factory builds them for the
\* summaries: everything default but type and pnl.
SummaryTrades ==
    {Trade(Datetime(1), 50, 10, 5, ty, "YES", p) :
        ty \in {"Buy", "Limit Sell", "Claim"}, p \in {-5, 0, 10, 20}}

PersistTrades ==
    {Trade(Datetime(n), 50, 10, 5, ty, sd, 10) :
        n \in Times, ty \in {"Buy", "Sell"}, sd \in Sides}

-----------------------------------------------------------------------------
(* Helpers on sequences *)

Range(s) == {s[i] : i \in 1..Len(s)}

Front(s) == SubSeq(s, 1, Len(s) - 1)

Last(s) == s[Len(s)]

\* the permutations of 1..n
Perms(n) == {f \in [1..n -> 1..n] : \A i, j \in 1..n : f[i] = f[j] => i = j}

\* Python's < on two timestamps of one kind
TsLess(a, b) == a.t < b.t \/ (a.t = b.t /\ a.us < b.us)

\* TRUE when comparing some two timestamps of the list raises TypeError
MixedKinds(s) == \E i, j \in 1..Len(s) : s[i].timestamp.kind # s[j].timestamp.kind

-----------------------------------------------------------------------------
(* Trade creation *)

\* Trade(...): the dataclass constructor; the caller appends the new object
\* to its list.
NewTrade(domain, max) ==
    /\ Len(trades) < max
    /\ \E t \in domain :
        /\ trades' = Append(trades, t)
        /\ created' = Append(created, t)
        /\ ret' = [op |-> "Trade"]

-----------------------------------------------------------------------------
(* pnl.calculate_pnl *)

\* A faulty variant of SortValuesByTimestamp: the rows keep the order of the input.
SortValuesNoSort(s) == {s}

\* df.sort_values("timestamp").reset_index(drop=True): pandas sorts with
\* kind="quicksort", which is not stable, so rows of equal timestamp come out
\* in any order.
SortValuesByTimestamp(s) ==
    {[i \in 1..Len(s) |-> s[f[i]]] : f \in
        {g \in Perms(Len(s)) :
            \A i \in 1..Len(s) - 1 :
                ~TsLess(s[g[i + 1]].timestamp, s[g[i]].timestamp)}}

RECURSIVE Sum(_)
\* Series.sum(), sum(...)
Sum(s) == IF s = <<>> THEN 0 ELSE Sum(Front(s)) + Last(s)

\* A faulty variant of CumSum: each entry sums the values from its index to the end.
CumSumFromEnd(s) == [i \in 1..Len(s) |-> Sum(SubSeq(s, i, Len(s)))]

RECURSIVE CumSum(_)
\* Series.cumsum()
CumSum(s) ==
    IF s = <<>> THEN <<>>
    ELSE IF Len(s) = 1 THEN s
    ELSE LET c == CumSum(Front(s)) IN Append(c, Last(c) + Last(s))

\* One pass of the loop body of calculate_pnl (lines 38-41).
PnlExposureStep(cumulative_shares, row) ==
    IF row.type \in BuyTypes THEN cumulative_shares + row.shares
    ELSE IF row.type \in SellTypes THEN cumulative_shares - row.shares
    ELSE cumulative_shares

RECURSIVE PnlExposure(_)
\* the exposure column: cumulative_shares after each row
PnlExposure(rows) ==
    IF rows = <<>> THEN <<>>
    ELSE LET e == PnlExposure(Front(rows))
             before == IF e = <<>> THEN 0 ELSE Last(e)
         IN Append(e, PnlExposureStep(before, Last(rows)))

\* pd.DataFrame(): no row, no column
EmptyDataFrame == [rows |-> <<>>]

\* the columns calculate_pnl adds to the sorted rows
PnlFrame(rows) ==
    [rows |-> rows,
     trade_pnl |-> [i \in 1..Len(rows) |-> rows[i].pnl],
     cumulative_pnl |-> CumSum([i \in 1..Len(rows) |-> rows[i].pnl]),
     exposure |-> PnlExposure(rows)]

\* calculate_pnl(trades): the values the call can return
calculate_pnl(ts) ==
    IF ts = <<>> THEN {[op |-> "calculate_pnl", raised |-> "no", df |-> EmptyDataFrame]}
    ELSE IF MixedKinds(ts) THEN {[op |-> "calculate_pnl", raised |-> "TypeError"]}
    ELSE {[op |-> "calculate_pnl", raised |-> "no", df |-> PnlFrame(rows)] :
            rows \in SortValuesByTimestamp(ts)}

CalculatePnl ==
    /\ \E r \in calculate_pnl(trades) : ret' = r
    /\ UNCHANGED <<trades, created>>

-----------------------------------------------------------------------------
(* charts.enhanced.generate_enhanced_chart: the running metrics *)

RECURSIVE Sorted(_)
\* sorted(trades, key=lambda t: t.timestamp): Python's sort is stable
Sorted(s) ==
    IF s = <<>> THEN <<>>
    ELSE LET rest == Sorted(Front(s))
             x == Last(s)
             \* x goes after every element that is not greater than it
             k == Cardinality({i \in 1..Len(rest) :
                                ~TsLess(x.timestamp, rest[i].timestamp)})
         IN SubSeq(rest, 1, k) \o <<x>> \o SubSeq(rest, k + 1, Len(rest))

\* current_shares after trade t (lines 57-74)
ChartSharesStep(current_shares, t) ==
    IF t.type \in BuyTypes
    THEN IF t.side = "YES" THEN current_shares + t.shares
         ELSE current_shares - t.shares
    ELSE IF t.side = "YES" THEN current_shares - t.shares
         ELSE current_shares + t.shares

\* A faulty variant of ChartCostStep: selling NO adds the cost.
ChartCostStepBySide(current_cost, t) ==
    IF t.type \in BuyTypes THEN current_cost + t.cost
    ELSE IF t.side = "YES" THEN current_cost - t.cost
    ELSE current_cost + t.cost

\* current_cost after trade t (lines 57-74)
ChartCostStep(current_cost, t) ==
    IF t.type \in BuyTypes
    THEN IF t.side = "YES" THEN current_cost + t.cost
         ELSE current_cost + t.cost
    ELSE IF t.side = "YES" THEN current_cost - t.cost
         ELSE current_cost - t.cost

\* A faulty variant of MarkToMarket: the price is not converted from cents.
MarkToMarketInCents(current_shares, current_cost, t) ==
    [num |-> current_shares * t.price * 100 - current_cost * 100, den |-> 100]

\* mtm_pnl (lines 81-83): current_shares * (t.price / 100.0) - current_cost
MarkToMarket(current_shares, current_cost, t) ==
    [num |-> current_shares * t.price - current_cost * 100, den |-> 100]

RECURSIVE RunningMetrics(_)
\* the loop of lines 55-84 over the sorted trades: the three lists it builds
RunningMetrics(sorted_trades) ==
    IF sorted_trades = <<>>
    THEN [net_shares |-> <<>>, total_cost_basis |-> <<>>, running_pnl |-> <<>>]
    ELSE LET m == RunningMetrics(Front(sorted_trades))
             t == Last(sorted_trades)
             shares0 == IF m.net_shares = <<>> THEN 0 ELSE Last(m.net_shares)
             cost0 == IF m.total_cost_basis = <<>> THEN 0 ELSE Last(m.total_cost_basis)
             current_shares == ChartSharesStep(shares0, t)
             current_cost == ChartCostStep(cost0, t)
         IN [net_shares |-> Append(m.net_shares, current_shares),
             total_cost_basis |-> Append(m.total_cost_basis, current_cost),
             running_pnl |-> Append(m.running_pnl,
                                MarkToMarket(current_shares, current_cost, t))]

\* A faulty variant of is_long_yes: the label follows the side alone.
IsLongYesBySide(t) == t.side = "YES"

\* Long YES / Short YES of lines 92-119
is_long_yes(t) ==
    IF t.type \in BuyTypes THEN t.side = "YES" ELSE t.side = "NO"

\* generate_enhanced_chart(trades, ...): what the figure is drawn from
generate_enhanced_chart(ts) ==
    IF ts = <<>> THEN [op |-> "generate_enhanced_chart", raised |-> "no", drawn |-> FALSE]
    ELSE IF MixedKinds(ts) THEN [op |-> "generate_enhanced_chart", raised |-> "TypeError"]
    ELSE LET sorted_trades == Sorted(ts)
             m == RunningMetrics(sorted_trades)
         IN [op |-> "generate_enhanced_chart", raised |-> "no", drawn |-> TRUE,
             sorted_trades |-> sorted_trades,
             net_shares |-> m.net_shares,
             total_cost_basis |-> m.total_cost_basis,
             running_pnl |-> m.running_pnl,
             long_yes |-> [i \in 1..Len(sorted_trades) |-> is_long_yes(sorted_trades[i])]]

GenerateEnhancedChart ==
    /\ ret' = generate_enhanced_chart(trades)
    /\ UNCHANGED <<trades, created>>

-----------------------------------------------------------------------------
(* pnl.calculate_global_pnl_summary, pnl.calculate_market_pnl_summary *)

\* an exact quotient n / d
Quot(n, d) == [num |-> n, den |-> d]

\* the float 0.0 (and the int 0) where the other branch is a quotient
Zero == Quot(0, 1)

\* df[column] as a list
Column(df, name) == [i \in 1..Len(df) |-> df[i][name]]

IsWin(row) == row.pnl > 0
IsLoss(row) == row.pnl < 0
IsBreakeven(row) == row.pnl = 0
IsBuyRow(row) == row.type \in BuyTypes
IsSellRow(row) == row.type \in SellTypes

\* A faulty variant of WinRate: breakeven trades stay in the denominator.
WinRateOverAll(df) ==
    IF Len(df) > 0 THEN Quot(Len(SelectSeq(df, IsWin)) * 100, Len(df)) ELSE Zero

\* win_rate (lines 72-73 and 87-88, 161-162 and 176-177)
WinRate(df) ==
    LET winning_trades == Len(SelectSeq(df, IsWin))
        losing_trades == Len(SelectSeq(df, IsLoss))
        trades_with_outcome == winning_trades + losing_trades
    IN IF trades_with_outcome > 0
       THEN Quot(winning_trades * 100, trades_with_outcome)
       ELSE Zero

\* the statistics both summaries compute from df (lines 70-88, 160-177)
SummaryStats(df) ==
    LET total_pnl == Sum(Column(df, "pnl"))
        winning_trades == Len(SelectSeq(df, IsWin))
        losing_trades == Len(SelectSeq(df, IsLoss))
        breakeven_trades == Len(SelectSeq(df, IsBreakeven))
        total_trades == Len(df)
        buy_trades == SelectSeq(df, IsBuyRow)
        sell_trades == SelectSeq(df, IsSellRow)
        total_invested == IF Len(buy_trades) > 0 THEN Sum(Column(buy_trades, "cost")) ELSE 0
        total_returned == IF Len(sell_trades) > 0 THEN Sum(Column(sell_trades, "cost")) ELSE 0
    IN [total_trades |-> total_trades,
        total_pnl |-> total_pnl,
        avg_pnl |-> IF total_trades > 0 THEN Quot(total_pnl, total_trades) ELSE Zero,
        winning_trades |-> winning_trades,
        losing_trades |-> losing_trades,
        breakeven_trades |-> breakeven_trades,
        win_rate |-> WinRate(df),
        total_invested |-> total_invested,
        total_returned |-> total_returned,
        roi |-> IF total_invested > 0 THEN Quot(total_pnl * 100, total_invested) ELSE Zero]

\* the dict of lines 54-66
EmptyGlobalSummary ==
    [total_trades |-> 0, total_volume |-> 0, total_pnl |-> 0, win_rate |-> Zero,
     avg_pnl_per_trade |-> Zero, winning_trades |-> 0, losing_trades |-> 0,
     total_invested |-> 0, total_returned |-> 0, roi |-> Zero, avg_pnl |-> Zero]

calculate_global_pnl_summary(ts) ==
    IF ts = <<>> THEN EmptyGlobalSummary
    ELSE LET st == SummaryStats(ts)
         IN [total_trades |-> st.total_trades,
             total_volume |-> Sum(Column(ts, "cost")),
             total_pnl |-> st.total_pnl,
             win_rate |-> st.win_rate,
             avg_pnl_per_trade |-> st.avg_pnl,
             avg_pnl |-> st.avg_pnl,
             winning_trades |-> st.winning_trades,
             losing_trades |-> st.losing_trades,
             breakeven_trades |-> st.breakeven_trades,
             total_invested |-> st.total_invested,
             total_returned |-> st.total_returned,
             roi |-> st.roi]

\* the dict of lines 141-153
EmptyMarketSummary ==
    [market_title |-> "Unknown Market", total_trades |-> 0, total_pnl |-> 0,
     avg_pnl |-> Zero, winning_trades |-> 0, losing_trades |-> 0, win_rate |-> Zero,
     total_invested |-> 0, total_returned |-> 0, roi |-> Zero,
     market_outcome |-> "None"]

calculate_market_pnl_summary(ts) ==
    IF ts = <<>> THEN EmptyMarketSummary
    ELSE LET st == SummaryStats(ts)
         IN [market_title |-> ts[1].market,
             total_trades |-> st.total_trades,
             total_pnl |-> st.total_pnl,
             avg_pnl |-> st.avg_pnl,
             winning_trades |-> st.winning_trades,
             losing_trades |-> st.losing_trades,
             breakeven_trades |-> st.breakeven_trades,
             win_rate |-> st.win_rate,
             total_invested |-> st.total_invested,
             total_returned |-> st.total_returned,
             roi |-> st.roi,
             \* a Trade has no attribute "outcome"
             market_outcome |-> "None"]

CalculateGlobalPnlSummary ==
    /\ ret' = [op |-> "calculate_global_pnl_summary", raised |-> "no",
               summary |-> calculate_global_pnl_summary(trades)]
    /\ UNCHANGED <<trades, created>>

CalculateMarketPnlSummary ==
    /\ ret' = [op |-> "calculate_market_pnl_summary", raised |-> "no",
               summary |-> calculate_market_pnl_summary(trades)]
    /\ UNCHANGED <<trades, created>>

-----------------------------------------------------------------------------
(* trade_loader.save_trades, reporting.report_data.export_to_json *)

\* t['timestamp'] = t['timestamp'].isoformat() on vars(t), which is the
\* Trade's own attribute dict: the Trade's timestamp becomes the string.
\* A timestamp that is already a string is left as it is.
TimestampToString(t) ==
    IF t.timestamp.kind = "datetime"
    THEN [t EXCEPT !.timestamp = isoformat(t.timestamp)]
    ELSE t

\* save_trades(trades, file_path) on a list of Trade objects
SaveTrades ==
    /\ trades' = [i \in 1..Len(trades) |-> TimestampToString(trades[i])]
    /\ ret' = [op |-> "save_trades", raised |-> "no", written |-> trades']
    /\ UNCHANGED created

\* export_to_json(trades, filename)
ExportToJson ==
    /\ trades' = IF trades = <<>> THEN trades
                 ELSE [i \in 1..Len(trades) |-> TimestampToString(trades[i])]
    /\ ret' = IF trades = <<>>
              THEN [op |-> "export_to_json", raised |-> "no", result |-> FALSE]
              ELSE [op |-> "export_to_json", raised |-> "no", result |-> TRUE,
                    written |-> trades']
    /\ UNCHANGED created

-----------------------------------------------------------------------------
Init ==
    /\ trades = <<>>
    /\ created = <<>>
    /\ ret = [op |-> "none"]

NextAccounting ==
    \/ NewTrade(AcctTrades, MaxTrades)
    \/ CalculatePnl
    \/ GenerateEnhancedChart
    \/ CalculateGlobalPnlSummary
    \/ CalculateMarketPnlSummary

\* The accounting engine and the summaries applied to lists of Trades.
SpecAccounting == Init /\ [][NextAccounting]_vars

NextSummary ==
    \/ NewTrade(SummaryTrades, MaxSummaryTrades)
    \/ CalculateGlobalPnlSummary
    \/ CalculateMarketPnlSummary

\* The summaries applied to lists of Trades that differ in pnl and type.
SpecSummary == Init /\ [][NextSummary]_vars

NextPersist ==
    \/ NewTrade(PersistTrades, MaxPersistTrades)
    \/ SaveTrades
    \/ ExportToJson
    \/ CalculatePnl
    \/ GenerateEnhancedChart
    \/ CalculateGlobalPnlSummary
    \/ CalculateMarketPnlSummary

\* Every operation, the JSON writers included, in any order.
SpecPersist == Init /\ [][NextPersist]_vars

-----------------------------------------------------------------------------
(* utils.math_utils.safe_divide, calculate_roi; the summaries' roi *)

\* longest list in the return-on-investment specification
MaxRoiTrades == 2

\* numerator / denominator if denominator != 0 else default
safe_divide(numerator, denominator, default) ==
    IF denominator # 0 THEN Quot(numerator, denominator) ELSE default

\* safe_divide(pnl, investment, 0.0) * 100
calculate_roi(pnl, investment) ==
    LET q == safe_divide(pnl, investment, Zero)
    IN Quot(q.num * 100, q.den)

\* Trades whose cost is positive, zero or negative (a refund, a credit):
\* the loader passes any float through.
RoiCosts == {-5, 0, 5}
RoiPnls == {-5, 10}

RoiTrades ==
    {Trade(Datetime(1), 50, 10, c, ty, "YES", p) :
        c \in RoiCosts, ty \in {"Buy", "Sell"}, p \in RoiPnls}

\* calculate_roi(pnl, investment)
CalculateRoi ==
    /\ \E pnl \in RoiPnls, investment \in RoiCosts :
        ret' = [op |-> "calculate_roi", raised |-> "no", pnl |-> pnl,
                investment |-> investment,
                result |-> calculate_roi(pnl, investment)]
    /\ UNCHANGED <<trades, created>>

NextRoi ==
    \/ NewTrade(RoiTrades, MaxRoiTrades)
    \/ CalculateGlobalPnlSummary
    \/ CalculateMarketPnlSummary
    \/ CalculateRoi

\* The summaries and calculate_roi over investments of either sign.
SpecRoi == Init /\ [][NextRoi]_vars

-----------------------------------------------------------------------------
(* filters: filter_by_date, filter_by_trade_type, filter_by_side,          *)
(* filter_by_pnl; api.services.analysis_service.AnalysisService.apply_filters *)

\* longest list in the filter specification
MaxFilterTrades == 2

\* An Optional argument: None, or a value.
None == [some |-> FALSE]
Some(x) == [some |-> TRUE, v |-> x]

\* timedelta(days=1), in seconds
SecondsPerDay == 86400

\* a datetime with microseconds and a tzinfo
DatetimeTz(n, us, tzinfo) == [kind |-> "datetime", t |-> n, us |-> us, tzinfo |-> tzinfo]

\* _normalize_datetime(dt) on a datetime: an aware datetime loses its tzinfo
\* and keeps its wall clock, a naive one is returned as it is.
normalize_datetime(dt) ==
    IF dt.tzinfo # "None" THEN [dt EXCEPT !.tzinfo = "None"] ELSE dt

\* datetime.strptime(s, "%Y-%m-%d") for the date string of day number day:
\* midnight of that day
strptime(day) == Datetime(day * SecondsPerDay)

\* strptime(end, "%Y-%m-%d") + timedelta(days=1) - timedelta(seconds=1)
EndOfDay(day) == Datetime(day * SecondsPerDay + SecondsPerDay - 1)

\* the value a filter returns: the list, and whether it is the very list
\* object it was given
Returned(same_object, result) == [same_object |-> same_object, result |-> result]

\* filter_by_date(trades, start, end), start and end None or date strings
filter_by_date(ts, start, end) ==
    IF ~start.some /\ ~end.some THEN Returned(TRUE, ts)
    ELSE LET start_dt == IF start.some THEN Some(strptime(start.v)) ELSE None
             end_dt == IF end.some THEN Some(EndOfDay(end.v)) ELSE None
             Keep(t) ==
                LET n == normalize_datetime(t.timestamp)
                IN /\ ~(start_dt.some /\ TsLess(n, start_dt.v))
                   /\ ~(end_dt.some /\ TsLess(end_dt.v, n))
         IN Returned(FALSE, SelectSeq(ts, Keep))

\* "not types", "not sides": None and the empty list are both falsy
IsFalsy(allow) == ~allow.some \/ allow.v = {}

\* A faulty variant of filter_by_trade_type: the loop starts at the second trade.
FilterByTypeSkipFirst(ts, types) ==
    IF ~types.some \/ types.v = {} THEN [same_object |-> TRUE, result |-> ts]
    ELSE LET Keep(t) == t.type \in types.v
         IN [same_object |-> FALSE,
             result |-> SelectSeq(SubSeq(ts, 2, Len(ts)), Keep)]

\* filter_by_trade_type(trades, types)
filter_by_trade_type(ts, types) ==
    IF IsFalsy(types) THEN Returned(TRUE, ts)
    ELSE LET Keep(t) == t.type \in types.v
         IN Returned(FALSE, SelectSeq(ts, Keep))

\* A faulty variant of filter_by_side: the loop stops at the first trade it keeps.
FilterBySideFirstMatch(ts, sides) ==
    IF ~sides.some \/ sides.v = {} THEN [same_object |-> TRUE, result |-> ts]
    ELSE LET Keep(t) == t.side \in sides.v
             kept == SelectSeq(ts, Keep)
         IN [same_object |-> FALSE,
             result |-> IF kept = <<>> THEN kept ELSE <<kept[1]>>]

\* filter_by_side(trades, sides)
filter_by_side(ts, sides) ==
    IF IsFalsy(sides) THEN Returned(TRUE, ts)
    ELSE LET Keep(t) == t.side \in sides.v
         IN Returned(FALSE, SelectSeq(ts, Keep))

\* A faulty variant of filter_by_pnl: a trade whose pnl equals a bound is dropped.
FilterByPnlExclusive(ts, min_pnl, max_pnl) ==
    LET Keep(t) ==
            /\ ~(min_pnl.some /\ t.pnl <= min_pnl.v)
            /\ ~(max_pnl.some /\ t.pnl >= max_pnl.v)
    IN [same_object |-> FALSE, result |-> SelectSeq(ts, Keep)]

\* filter_by_pnl(trades, min_pnl, max_pnl)
filter_by_pnl(ts, min_pnl, max_pnl) ==
    LET Keep(t) ==
            /\ ~(min_pnl.some /\ t.pnl < min_pnl.v)
            /\ ~(max_pnl.some /\ t.pnl > max_pnl.v)
    IN Returned(FALSE, SelectSeq(ts, Keep))

\* AnalysisService.apply_filters(trades, filters)
apply_filters(ts, filters) ==
    LET by_date == IF filters.start_date.some \/ filters.end_date.some
                   THEN filter_by_date(ts, filters.start_date, filters.end_date)
                   ELSE Returned(TRUE, ts)
        by_type == IF ~IsFalsy(filters.types)
                   THEN filter_by_trade_type(by_date.result, filters.types)
                   ELSE by_date
        by_side == IF ~IsFalsy(filters.sides)
                   THEN filter_by_side(by_type.result, filters.sides)
                   ELSE by_type
        by_pnl == IF filters.min_pnl.some \/ filters.max_pnl.some
                  THEN filter_by_pnl(by_side.result, filters.min_pnl, filters.max_pnl)
                  ELSE by_side
        InMarket(t) == t.market_slug = filters.market_slug.v
    IN IF filters.market_slug.some
       THEN Returned(FALSE, SelectSeq(by_pnl.result, InMarket))
       ELSE by_pnl

\* Day numbers of the date strings, and the timestamps of the trades: noon
\* of day 1; on day 2 midnight (timezone-aware), 23:59:59 and 23:59:59.5.
\* Day 3 is after every trade.
FilterDays == {2, 3}
FilterTimes ==
    {DatetimeTz(1 * SecondsPerDay + 43200, 0, "None"),
     DatetimeTz(2 * SecondsPerDay, 0, "UTC"),
     DatetimeTz(3 * SecondsPerDay - 1, 0, "None"),
     DatetimeTz(3 * SecondsPerDay - 1, 500000, "None")}

\* (type, side, pnl) of the trades of the filter specification
FilterKinds == {[type |-> "Buy", side |-> "YES", pnl |-> 10],
                [type |-> "Sell", side |-> "NO", pnl |-> -5],
                [type |-> "Buy", side |-> "NO", pnl |-> 0]}

FilterTrades ==
    {Trade(ts, 50, 10, 5, k.type, k.side, k.pnl) : ts \in FilterTimes, k \in FilterKinds}

StartArgs == {None} \cup {Some(d) : d \in FilterDays}
EndArgs == {None, Some(2)}
TypeArgs == {None, Some({}), Some({"Buy"}), Some({"Buy", "Sell"}),
             Some({"NonExistentType"})}
SideArgs == {None, Some({}), Some({"YES"}), Some({"YES", "NO"})}
MinPnlArgs == {None, Some(0), Some(10)}
MaxPnlArgs == {None, Some(0)}

\* FilterParams as the API builds them: any of the four filters given or
\* not (no date, a start, or a start and an end), or a market alone, or
\* an empty list of types or of sides alone
FilterParams ==
    {[start_date |-> date[1], end_date |-> date[2], types |-> types,
      sides |-> sides, min_pnl |-> min_pnl, max_pnl |-> None,
      market_slug |-> None] :
        date \in {<<None, None>>, <<Some(2), None>>, <<Some(2), Some(2)>>},
        types \in {None, Some({"Buy"})}, sides \in {None, Some({"YES"})},
        min_pnl \in {None, Some(0)}}
    \cup
    {[start_date |-> None, end_date |-> None, types |-> None, sides |-> None,
      min_pnl |-> None, max_pnl |-> None, market_slug |-> Some(slug)] :
        slug \in {"test-market", "other-market"}}
    \cup
    {[start_date |-> None, end_date |-> None, types |-> allow[1], sides |-> allow[2],
      min_pnl |-> None, max_pnl |-> None, market_slug |-> None] :
        allow \in {<<Some({}), None>>, <<None, Some({})>>}}

\* the record of a call of a filter: its arguments and what it returned
FilterCall(op, args, returned) ==
    [op |-> op, raised |-> "no", args |-> args,
     same_object |-> returned.same_object, result |-> returned.result]

FilterByDate ==
    /\ \E start \in StartArgs, end \in EndArgs :
        ret' = FilterCall("filter_by_date", [start |-> start, end |-> end],
                          filter_by_date(trades, start, end))
    /\ UNCHANGED <<trades, created>>

FilterByTradeType ==
    /\ \E types \in TypeArgs :
        ret' = FilterCall("filter_by_trade_type", [types |-> types],
                          filter_by_trade_type(trades, types))
    /\ UNCHANGED <<trades, created>>

FilterBySide ==
    /\ \E sides \in SideArgs :
        ret' = FilterCall("filter_by_side", [sides |-> sides],
                          filter_by_side(trades, sides))
    /\ UNCHANGED <<trades, created>>

FilterByPnl ==
    /\ \E min_pnl \in MinPnlArgs, max_pnl \in MaxPnlArgs :
        ret' = FilterCall("filter_by_pnl", [min_pnl |-> min_pnl, max_pnl |-> max_pnl],
                          filter_by_pnl(trades, min_pnl, max_pnl))
    /\ UNCHANGED <<trades, created>>

ApplyFilters ==
    /\ \E filters \in FilterParams :
        ret' = FilterCall("apply_filters", filters, apply_filters(trades, filters))
    /\ UNCHANGED <<trades, created>>

NextFilter ==
    \/ NewTrade(FilterTrades, MaxFilterTrades)
    \/ FilterByDate
    \/ FilterByTradeType
    \/ FilterBySide
    \/ FilterByPnl
    \/ ApplyFilters

\* The filters applied to lists of Trades.
SpecFilter == Init /\ [][NextFilter]_vars

-----------------------------------------------------------------------------
(* trade_loader._parse_timestamp                                           *)
(*                                                                         *)
(* Raw values.  A value read from a file is a record tagged with its       *)
(* Python type.  An int or a float is kept exact in two limbs,             *)
(* hi * 1000000 + lo with 0 <= lo < 1000000, and us microseconds, so that  *)
(* 1e12 and epoch milliseconds are representable; nan, inf, -inf and a     *)
(* float beyond the range of time_t (huge) are classes of their own.  A    *)
(* string is an ISO-8601 string (the datetime it denotes), a numeric       *)
(* string (the number float() reads from it) or any other text.            *)

\* 1_000_000: the micro-units of a unit, and the radix of the two limbs
Million == 1000000

PyNone == [type |-> "NoneType"]

Num(type, hi, lo) == [type |-> type, class |-> "finite", hi |-> hi, lo |-> lo, us |-> 0]

\* the int n
PyInt(n) == Num("int", n \div Million, n % Million)

NaN == [type |-> "float", class |-> "nan"]
Inf == [type |-> "float", class |-> "inf"]
NegInf == [type |-> "float", class |-> "-inf"]
\* a finite float beyond the range of time_t, such as 1e300
Huge == [type |-> "float", class |-> "huge"]

\* a string float() reads as the number num
NumStr(num) == [type |-> "str", form |-> "numeric", num |-> num]
\* a string datetime.fromisoformat() reads as the datetime dt
IsoStr(dt) == [type |-> "str", form |-> "iso", dt |-> dt]
\* any other string
Str(s) == [type |-> "str", form |-> "text", s |-> s]
\* a pandas Timestamp: to_pydatetime() gives dt
Timestamp(dt) == [type |-> "Timestamp", dt |-> dt]

IsNumber(value) == value.type \in {"int", "float"}

\* a < b on finite numbers
NumLess(a, b) ==
    \/ a.hi < b.hi
    \/ a.hi = b.hi /\ a.lo < b.lo
    \/ a.hi = b.hi /\ a.lo = b.lo /\ a.us < b.us

\* value == 0
IsZero(value) == IsNumber(value) /\ value.class = "finite"
                 /\ value.hi = 0 /\ value.lo = 0 /\ value.us = 0

\* 1e12
MillisThreshold == Num("float", Million, 0)

\* A faulty variant of IsMillis: a value equal to 1e12 is taken as milliseconds too.
IsMillisFromThreshold(num) ==
    IF num.class = "finite" THEN ~NumLess(num, [type |-> "float", class |-> "finite",
                                                 hi |-> 1000000, lo |-> 0, us |-> 0])
    ELSE num.class \in {"inf", "huge"}

\* value > 1e12
IsMillis(num) ==
    IF num.class = "finite" THEN NumLess(MillisThreshold, num)
    ELSE num.class \in {"inf", "huge"}

\* value / 1000
DivideBy1000(num) ==
    IF num.class = "finite"
    THEN [type |-> "float", class |-> "finite",
          hi |-> num.hi \div 1000,
          lo |-> (num.hi % 1000) * 1000 + num.lo \div 1000,
          us |-> (num.lo % 1000) * 1000]
    ELSE num

\* the timestamps of datetime.min (year 1) and of the last second of
\* datetime.max (year 9999)
MinTimestamp == Num("int", -62136, 403200)
MaxTimestamp == Num("int", 253402, 300799)

Returns(value) == [raised |-> "no", value |-> value]
Raises(error) == [raised |-> error]

\* datetime.utcfromtimestamp(num): ValueError for nan and for a year outside
\* 1..9999, OverflowError for a value beyond time_t
utcfromtimestamp(num) ==
    IF num.class = "nan" THEN Raises("ValueError")
    ELSE IF num.class # "finite" THEN Raises("OverflowError")
    ELSE IF NumLess(num, MinTimestamp)
            \/ NumLess([MaxTimestamp EXCEPT !.us = 999999], num)
         THEN Raises("ValueError")
    ELSE Returns(DatetimeTz(num.hi * Million + num.lo, num.us, "None"))

\* lines 71-73 and 80-82: milliseconds above 1e12, seconds otherwise
FromEpoch(num) ==
    IF IsMillis(num) THEN utcfromtimestamp(DivideBy1000(num))
    ELSE utcfromtimestamp(num)

\* datetime(1970, 1, 1)
Epoch == Datetime(0)

\* dt.replace(tzinfo=None) when dt.tzinfo is not None (lines 42-44)
StripTz(dt) == IF dt.tzinfo # "None" THEN [dt EXCEPT !.tzinfo = "None"] ELSE dt

\* lines 85-94 on a value pandas cannot read as a date: pd.to_datetime
\* raises and the epoch is returned
PandasFallback(value) == Returns(Epoch)

\* _parse_timestamp(value)
parse_timestamp(value) ==
    IF value.type = "NoneType" \/ IsZero(value) THEN Returns(Epoch)
    ELSE IF value.type = "datetime" THEN Returns(StripTz(value.dt))
    ELSE IF value.type = "Timestamp" THEN Returns(StripTz(value.dt))
    ELSE IF value.type = "str" THEN
        IF value.form = "iso" THEN Returns(StripTz(value.dt))
        ELSE IF value.form = "numeric" THEN
            LET r == FromEpoch(value.num)
            IN IF r.raised = "ValueError" THEN PandasFallback(value) ELSE r
        ELSE PandasFallback(value)
    ELSE IF IsNumber(value) THEN FromEpoch(value)
    ELSE PandasFallback(value)

\* a datetime object
PyDatetime(dt) == [type |-> "datetime", dt |-> dt]

\* 1704067200 is 2024-01-01T00:00:00, 1718452800 is 2024-06-15T12:00:00
ParseInstants == {0, 1, 86400, 1704067200, 1718452800}
ParseDatetimes ==
    {DatetimeTz(n, us, tz) :
        n \in ParseInstants, us \in {0, 500000}, tz \in {"None", "UTC", "+05:00"}}

\* 0, -1, 1704067200, 1718452800, 1704067200000, 1704067200500, 1e12,
\* 1e12 + 1, 253402300800 (the first second of year 10000), -1e12
ParseNumbers ==
    {PyInt(0), PyInt(-1), PyInt(1704067200), PyInt(1718452800),
     Num("int", 1704067, 200000),
     Num("int", 1704067, 200500), Num("int", Million, 0), Num("float", Million, 0),
     Num("int", Million, 1), Num("int", 253402, 300800), Num("float", 0, 0),
     Num("float", 0 - Million, 0), NaN, Inf, NegInf, Huge}

TimestampValues ==
    {PyNone, Str("garbage"), Str("")}
    \cup ParseNumbers
    \cup {NumStr(num) : num \in ParseNumbers \ {NaN}}
    \cup {PyDatetime(dt) : dt \in ParseDatetimes}
    \cup {Timestamp(dt) : dt \in ParseDatetimes}
    \cup {IsoStr(dt) : dt \in ParseDatetimes}

\* the record of a call: the argument, and the value returned or the error
ParseCall(value, outcome) ==
    IF outcome.raised = "no"
    THEN [op |-> "_parse_timestamp", raised |-> "no", value |-> value,
          result |-> outcome.value]
    ELSE [op |-> "_parse_timestamp", raised |-> outcome.raised, value |-> value]

ParseTimestamp ==
    /\ \E value \in TimestampValues : ret' = ParseCall(value, parse_timestamp(value))
    /\ UNCHANGED <<trades, created>>

NextParse ==
    \/ ParseTimestamp

\* _parse_timestamp applied to raw values of every kind.
SpecParse == Init /\ [][NextParse]_vars

-----------------------------------------------------------------------------
(* trade_loader.load_trades: the normalization of raw records              *)
(*                                                                         *)
(* A raw record is a dict: a function from the keys the loader reads to    *)
(* raw values, Absent for a key the dict does not have.  The amounts of    *)
(* the raw records are whole numbers of units, so that an amount in        *)
(* micro-units divided by 1,000,000 is an integer.                         *)

\* most records in a file
MaxRawRecords == 2

RawKeys ==
    {"market", "market_slug", "collateralAmount", "cost", "pnl",
     "outcomeTokenAmount", "shares", "timestamp", "blockTimestamp", "type",
     "strategy", "side", "outcomeIndex", "price", "tx_hash", "transactionHash"}

\* the key is not in the dict
Absent == [type |-> "missing"]

\* t.get(key): None for a key the dict does not have
Get(t, key) == IF t[key].type = "missing" THEN PyNone ELSE t[key]

\* key in t
Has(t, key) == t[key].type # "missing"

\* the nested market object: {"title": ..., "slug": ...}
MarketDict(title, slug) == [type |-> "dict", title |-> title, slug |-> slug]

\* bool(value): None, 0, 0.0 and "" are falsy, nan is truthy
Truthy(value) ==
    IF value.type \in {"NoneType", "missing"} THEN FALSE
    ELSE IF value.type = "str" THEN ~(value.form = "text" /\ value.s = "")
    ELSE IF IsNumber(value) THEN ~IsZero(value)
    ELSE TRUE

\* a or b
Or(a, b) == IF Truthy(a) THEN a ELSE b

\* float(value): the number, or the error raised
float(value) ==
    IF IsNumber(value) THEN Returns(value)
    ELSE IF value.type = "str" /\ value.form = "numeric" THEN Returns(value.num)
    ELSE IF value.type = "str" THEN Raises("ValueError")
    ELSE Raises("TypeError")

\* the finite number num as a field of a Trade
Amount(num) == num.hi * Million + num.lo

\* float(t.get(key) or 0)
FloatOrZero(t, key) == float(Or(Get(t, key), PyInt(0)))

\* float(t.get(key) or 0) / 1_000_000
MicroUnits(t, key) ==
    LET f == FloatOrZero(t, key)
    IN IF f.raised = "no" THEN Returns(Amount(f.value) \div Million) ELSE f

\* float(t.get(key) or 0)
Units(t, key) ==
    LET f == FloatOrZero(t, key)
    IN IF f.raised = "no" THEN Returns(Amount(f.value)) ELSE f

\* A faulty variant of IsApiShape: a null or zero collateralAmount is taken for a file record.
IsApiShapeWhenTruthy(t) == Truthy(Get(t, "collateralAmount"))

\* "collateralAmount" in t
IsApiShape(t) == Has(t, "collateralAmount")

\* a raw string, or None, as a field of a Trade
Field(value) == IF value.type = "str" /\ value.form = "text" THEN value.s ELSE "None"

\* lines 151-164: market title and slug
MarketOf(t) ==
    LET market_data == Get(t, "market")
        title == IF market_data.type = "dict"
                 THEN Or(Get(market_data, "title"), Str("Unknown"))
                 ELSE IF market_data.type = "str" THEN market_data
                 ELSE Str("Unknown")
        slug == IF market_data.type = "dict"
                THEN Or(Get(market_data, "slug"), Str("unknown"))
                ELSE Or(Get(t, "market_slug"), Str("unknown"))
    IN [market_title |-> IF ~Truthy(title) THEN "Unknown" ELSE Field(title),
        market_slug |-> IF ~Truthy(slug) THEN "unknown" ELSE Field(slug)]

\* lines 187-193: the side
SideOf(t) ==
    LET side == Get(t, "side")
        outcome_index == Get(t, "outcomeIndex")
    IN IF ~Truthy(side)
       THEN IF outcome_index.type # "NoneType"
            THEN IF IsZero(outcome_index) THEN "YES" ELSE "NO"
            ELSE "YES"
       ELSE Field(side)

\* One pass of the loop body (lines 148-207): the Trade built from the raw
\* record t, or the first error raised.
Normalize(t) ==
    LET market == MarketOf(t)
        raw_cost == IF IsApiShape(t) THEN MicroUnits(t, "collateralAmount")
                    ELSE Units(t, "cost")
        raw_pnl == IF IsApiShape(t) THEN MicroUnits(t, "pnl") ELSE Units(t, "pnl")
        raw_shares == IF IsApiShape(t) THEN MicroUnits(t, "outcomeTokenAmount")
                      ELSE Units(t, "shares")
        raw_timestamp == Or(Get(t, "timestamp"), Or(Get(t, "blockTimestamp"), PyInt(0)))
        parsed_timestamp == parse_timestamp(raw_timestamp)
        trade_type == Or(Get(t, "type"), Or(Get(t, "strategy"), Str("Buy")))
        price == Units(t, "price")
        tx_hash == Or(Get(t, "tx_hash"), Get(t, "transactionHash"))
    IN IF raw_cost.raised # "no" THEN raw_cost
       ELSE IF raw_pnl.raised # "no" THEN raw_pnl
       ELSE IF raw_shares.raised # "no" THEN raw_shares
       ELSE IF parsed_timestamp.raised # "no" THEN parsed_timestamp
       ELSE IF price.raised # "no" THEN price
       ELSE Returns([market |-> market.market_title,
                     market_slug |-> market.market_slug,
                     timestamp |-> parsed_timestamp.value,
                     price |-> price.value,
                     shares |-> raw_shares.value,
                     cost |-> raw_cost.value,
                     type |-> Field(trade_type),
                     side |-> SideOf(t),
                     pnl |-> raw_pnl.value,
                     tx_hash |-> Field(tx_hash)])

\* load_trades(file_path): the list of Trades, or [] when the extension is
\* not supported or anything raised (lines 209-211)
load_trades(file) ==
    LET raw_trades == file.raw_trades
        normalized == [i \in 1..Len(raw_trades) |-> Normalize(raw_trades[i])]
    IN IF file.extension \notin {".json", ".csv", ".xlsx"} THEN <<>>
       ELSE IF \E i \in 1..Len(raw_trades) : normalized[i].raised # "no" THEN <<>>
       ELSE [i \in 1..Len(raw_trades) |-> normalized[i].value]

\* a dict with no key
EmptyRecord == [key \in RawKeys |-> Absent]

\* records that differ in side and outcomeIndex
SideRecords ==
    {[EmptyRecord EXCEPT !.side = side, !.outcomeIndex = outcome_index] :
        side \in {Absent, PyNone, Str(""), Str("NO"), Str("yes")},
        outcome_index \in {Absent, PyInt(0), PyInt(1)}}

\* records that differ in the market fields
MarketRecords ==
    {[EmptyRecord EXCEPT !.market = market, !.market_slug = market_slug] :
        market \in {PyNone, Str(""), Str("Election"),
                    MarketDict(Str("Election"), Str("election")),
                    MarketDict(PyNone, Str("")),
                    MarketDict(Absent, Absent)},
        market_slug \in {Absent, Str(""), Str("election")}}

\* records of both shapes
AmountRecords ==
    {[EmptyRecord EXCEPT !.collateralAmount = collateral, !.pnl = pnl,
                         !.cost = PyInt(7), !.shares = PyInt(9),
                         !.outcomeTokenAmount = PyInt(4000000),
                         !.price = PyInt(60)] :
        collateral \in {Absent, PyNone, PyInt(0), PyInt(5000000)},
        pnl \in {Absent, PyInt(-2000000)}}
    \cup
    {[EmptyRecord EXCEPT !.cost = falsy, !.pnl = falsy, !.shares = falsy,
                         !.price = falsy] :
        falsy \in {PyNone, PyInt(0), Str("")}}
    \cup
    {[EmptyRecord EXCEPT !.cost = NumStr(PyInt(7))],
     [EmptyRecord EXCEPT !.cost = Str("seven")],
     [EmptyRecord EXCEPT !.shares = PyInt(-9)],
     [EmptyRecord EXCEPT !.collateralAmount = PyInt(5000000),
                         !.outcomeTokenAmount = PyInt(-4000000)]}

\* records that differ in the remaining fields
OtherRecords ==
    {[EmptyRecord EXCEPT !.timestamp = PyInt(1704067200)],
     [EmptyRecord EXCEPT !.timestamp = IsoStr(DatetimeTz(1718452800, 0, "UTC"))],
     [EmptyRecord EXCEPT !.timestamp = Num("int", Million, 0)],
     [EmptyRecord EXCEPT !.blockTimestamp = Num("int", 1704067, 200000)],
     [EmptyRecord EXCEPT !.type = Str("Sell")],
     [EmptyRecord EXCEPT !.strategy = Str("Limit Sell")],
     [EmptyRecord EXCEPT !.tx_hash = Str("0xabc")],
     [EmptyRecord EXCEPT !.transactionHash = Str("0xdef")]}

RawRecords == SideRecords \cup MarketRecords \cup AmountRecords \cup OtherRecords

RECURSIVE RawLists(_)
\* the lists of at most n raw records
RawLists(n) ==
    IF n = 0 THEN {<<>>}
    ELSE LET shorter == RawLists(n - 1)
         IN shorter \cup {Append(s, r) : s \in {x \in shorter : Len(x) = n - 1},
                                         r \in RawRecords}

\* the files: JSON files of raw records, and a file of another extension
Files ==
    {[extension |-> ".json", raw_trades |-> raw_trades] :
        raw_trades \in RawLists(MaxRawRecords)}
    \cup {[extension |-> ".txt", raw_trades |-> <<EmptyRecord>>]}

\* trades = load_trades(file_path), the first call of a session
LoadTrades ==
    /\ ret.op = "none"
    /\ \E file \in Files :
        /\ trades' = load_trades(file)
        /\ created' = trades'
        /\ ret' = [op |-> "load_trades", raised |-> "no", file |-> file,
                   result |-> trades']

NextLoad ==
    \/ LoadTrades

\* Files of raw records loaded by load_trades.
SpecLoad == Init /\ [][NextLoad]_vars

-----------------------------------------------------------------------------
(* save_trades followed by load_trades: the file read back                *)

\* longest list saved and reloaded
MaxRoundTripTrades == 2

\* A faulty variant of JsonTimestamp: the string is written without its microseconds.
JsonTimestampToTheSecond(ts) == IsoStr([ts EXCEPT !.kind = "datetime", !.us = 0])

\* the timestamp string of a saved dict as json.load reads it: a string
\* datetime.fromisoformat() reads as the datetime it was rendered from
JsonTimestamp(ts) == IsoStr([ts EXCEPT !.kind = "datetime"])

\* json.dump then json.load of one dict of trades_dict: the ten attributes
\* of vars(t) under their own names, None as null
JsonRecord(d) ==
    LET \* a float of a whole value n, as json.load reads it
        PyFloat(n) == Num("float", n \div Million, n % Million)
    IN
    [key \in RawKeys |->
        CASE key = "market" -> Str(d.market)
          [] key = "market_slug" -> Str(d.market_slug)
          [] key = "timestamp" -> JsonTimestamp(d.timestamp)
          [] key = "price" -> PyFloat(d.price)
          [] key = "shares" -> PyFloat(d.shares)
          [] key = "cost" -> PyFloat(d.cost)
          [] key = "type" -> Str(d.type)
          [] key = "side" -> Str(d.side)
          [] key = "pnl" -> PyFloat(d.pnl)
          [] key = "tx_hash" -> IF d.tx_hash = "None" THEN PyNone ELSE Str(d.tx_hash)
          [] OTHER -> Absent]

\* the JSON file save_trades wrote from trades_dict
SavedFile(written) ==
    [extension |-> ".json",
     raw_trades |-> [i \in 1..Len(written) |-> JsonRecord(written[i])]]

\* canonical Trades: a naive timestamp (the epoch, or 2024-06-15T12:00:00.5,
\* which is 1718452800.5), zero and non-zero amounts, a pnl of either sign,
\* a tx_hash or none
RoundTripTrades ==
    {[Trade(ts, f.price, f.shares, f.cost, ty, sd, f.pnl) EXCEPT !.tx_hash = h] :
        ts \in {Datetime(0), DatetimeTz(1718452800, 500000, "None")},
        f \in {[price |-> 0, shares |-> 0, cost |-> 0, pnl |-> 0],
               [price |-> 60, shares |-> 10, cost |-> 6, pnl |-> -5]},
        ty \in {"Buy", "Limit Sell"}, sd \in Sides, h \in {"None", "0xabc"}}

\* loaded_trades = load_trades(file_path) on the file save_trades has just
\* written; the caller keeps its own list
LoadSavedTrades ==
    /\ ret.op = "save_trades"
    /\ ret' = [op |-> "load_trades", raised |-> "no", file |-> SavedFile(ret.written),
               result |-> load_trades(SavedFile(ret.written))]
    /\ UNCHANGED <<trades, created>>

NextRoundTrip ==
    \/ NewTrade(RoundTripTrades, MaxRoundTripTrades)
    \/ SaveTrades
    \/ LoadSavedTrades

\* Lists of Trades saved with save_trades and read back with load_trades.
SpecRoundTrip == Init /\ [][NextRoundTrip]_vars

-----------------------------------------------------------------------------
(* inference.py: the resolved side of a market                             *)

\* longest list given to the inference functions
MaxInferTrades == 2

\* config.PRICE_RESOLUTION_THRESHOLD = 0.5, a fraction of a dollar
PRICE_RESOLUTION_THRESHOLD == [num |-> 1, den |-> 2]

\* threshold * 100
ThresholdCents(threshold) == (threshold.num * 100) \div threshold.den

\* max(trades, key=lambda t: t.timestamp): the first of the trades with
\* the greatest timestamp
MaxByTimestamp(ts) ==
    LET i == CHOOSE i \in 1..Len(ts) :
                /\ \A j \in 1..Len(ts) : ~TsLess(ts[i].timestamp, ts[j].timestamp)
                /\ \A j \in 1..(i - 1) : TsLess(ts[j].timestamp, ts[i].timestamp)
    IN ts[i]

\* A faulty variant of AtOrAbove: a price equal to the threshold counts as below it.
StrictlyAbove(price, threshold_cents) == price > threshold_cents

\* price >= threshold_cents
AtOrAbove(price, threshold_cents) == price >= threshold_cents

\* infer_resolved_side_from_trades(trades, threshold): (inferred, latest)
infer_resolved_side_from_trades(ts, threshold) ==
    IF ts = <<>> THEN [inferred |-> None, latest |-> None]
    ELSE LET latest == MaxByTimestamp(ts)
             price == latest.price
             side == latest.side
             threshold_cents == ThresholdCents(threshold)
         IN IF side \notin {"YES", "NO"} THEN [inferred |-> None, latest |-> Some(latest)]
            ELSE IF AtOrAbove(price, threshold_cents)
                 THEN [inferred |-> Some(side), latest |-> Some(latest)]
            ELSE [inferred |-> Some(IF side = "YES" THEN "NO" ELSE "YES"),
                  latest |-> Some(latest)]

\* hasattr(trade, name)
hasattr(trade, name) == name \in DOMAIN trade

\* setattr(trade, 'resolution', r): a Trade that carries the attribute
WithResolution(trade, r) ==
    [k \in DOMAIN trade \cup {"resolution"} |->
        IF k = "resolution" THEN r ELSE trade[k]]

RECURSIVE detect_market_resolution(_)
\* detect_market_resolution(trades): the loop over reversed(trades)
detect_market_resolution(ts) ==
    IF ts = <<>> THEN None
    ELSE LET trade == Last(ts)
         IN IF hasattr(trade, "resolution") THEN Some(trade.resolution)
            ELSE IF trade.type \in {"Claim", "Won", "Loss"} THEN Some(trade.side)
            ELSE detect_market_resolution(Front(ts))

\* a list's trades differ in timestamp, price, side and type; "MAYBE" is a
\* side the loader passes through; two of them carry a resolution attribute
InferTrades ==
    {Trade(Datetime(n), price, 10, 5, ty, sd, 0) :
        n \in Times, price \in {50, 75}, ty \in {"Buy", "Claim"},
        sd \in {"YES", "NO", "MAYBE"}}
    \cup {WithResolution(Trade(Datetime(n), 50, 10, 5, "Buy", "YES", 0), "NO") : n \in Times}

\* called with the default threshold, or with 0.75
InferResolvedSideFromTrades ==
    /\ \E threshold \in {PRICE_RESOLUTION_THRESHOLD, [num |-> 3, den |-> 4]} :
        LET r == infer_resolved_side_from_trades(trades, threshold)
        IN ret' = [op |-> "infer_resolved_side_from_trades", raised |-> "no",
                   threshold |-> threshold, inferred |-> r.inferred,
                   latest |-> r.latest]
    /\ UNCHANGED <<trades, created>>

DetectMarketResolution ==
    /\ ret' = [op |-> "detect_market_resolution", raised |-> "no",
               result |-> detect_market_resolution(trades)]
    /\ UNCHANGED <<trades, created>>

NextInfer ==
    \/ NewTrade(InferTrades, MaxInferTrades)
    \/ InferResolvedSideFromTrades
    \/ DetectMarketResolution

\* The inference functions applied to lists of Trades in any order.
SpecInfer == Init /\ [][NextInfer]_vars

-----------------------------------------------------------------------------
(* utils.data.fetch_trade_history: the pagination loop                     *)
(*                                                                         *)
(* The call in progress is the record ret: where it stands (pc), the local *)
(* variables page and all_trades, the pages requested so far and the       *)
(* responses the server gave to them.  A trade dict of a page is the pair  *)
(* of the page it came on and its place on that page.                      *)

\* greatest totalCount the server reports
MaxTotalCount == 4
\* most trades on one page
MaxPageSize == 2

\* requests.get(...) raised a RequestException (lines 38-40)
RequestError == [kind |-> "error"]

\* the JSON body of a response to the request for a page: "data" with size
\* trade dicts, "totalCount" a number or absent
Body(page, size, total_count) ==
    [kind |-> "ok",
     data |-> [j \in 1..size |-> [page |-> page, index |-> j]],
     totalCount |-> total_count]

\* what the server may answer to the request for a page
Responses(page) ==
    {RequestError}
    \cup {Body(page, size, total_count) :
            size \in 0..MaxPageSize,
            total_count \in {None} \cup {Some(n) : n \in 0..MaxTotalCount}}

\* A faulty variant of NextPage: the page number is not advanced.
SamePageAgain(page) == page

\* page += 1
NextPage(page) == page + 1

\* fetch_trade_history(session_cookie, page_limit): lines 20-21
FetchTradeHistory ==
    /\ ret.op = "none"
    /\ ret' = [op |-> "fetch_trade_history", raised |-> "no", pc |-> "request",
               page |-> 1, all_trades |-> <<>>, requested |-> <<>>,
               responses |-> <<>>]
    /\ UNCHANGED <<trades, created>>

\* one pass of the loop `while True` (lines 25-52): the request for the
\* page, the server's answer, and either a break, which ends the call with
\* `return all_trades`, or the next page
FetchPage ==
    /\ ret.op = "fetch_trade_history"
    /\ ret.pc = "request"
    /\ \E resp \in Responses(ret.page) :
        LET asked == [ret EXCEPT !.requested = Append(@, ret.page),
                                 !.responses = Append(@, resp)]
            all_trades == IF resp.kind = "ok" THEN ret.all_trades \o resp.data
                          ELSE ret.all_trades
            \* data.get("totalCount", 0)
            total_count == IF resp.totalCount.some THEN resp.totalCount.v ELSE 0
        IN ret' =
            IF resp.kind = "error" \/ resp.data = <<>>
            THEN [asked EXCEPT !.pc = "returned"]
            ELSE IF Len(all_trades) >= total_count
                 THEN [asked EXCEPT !.pc = "returned", !.all_trades = all_trades]
            ELSE [asked EXCEPT !.all_trades = all_trades, !.page = NextPage(@)]
    /\ UNCHANGED <<trades, created>>

NextFetch ==
    \/ FetchTradeHistory
    \/ FetchPage

\* fetch_trade_history against a server free to answer each request with
\* an error or with any page.
SpecFetch == Init /\ [][NextFetch]_vars

\* The same, the loop running on: each requests.get returns or raises
\* within its timeout, so a pass of the loop that can be taken is taken.
SpecFetchLive == SpecFetch /\ WF_vars(FetchPage)

-----------------------------------------------------------------------------
(* config.get_trade_style: the substring classification of a type *)

\* "Buy" in trade_type, "Sell" in trade_type, for the types of the model
ContainsBuy(trade_type) == trade_type \in {"Buy", "Market Buy", "Limit Buy"}
ContainsSell(trade_type) == trade_type \in {"Sell", "Market Sell", "Limit Sell"}

\* base_type of config.py line 46
base_type(trade_type) ==
    IF ContainsBuy(trade_type) THEN "Buy"
    ELSE IF ContainsSell(trade_type) THEN "Sell"
    ELSE "Buy"

-----------------------------------------------------------------------------
(* Properties *)

Count(s, x) == Cardinality({i \in 1..Len(s) : s[i] = x})

Prefix(s, i) == SubSeq(s, 1, i)

IsSortedByTimestamp(s) ==
    \A i \in 1..Len(s) - 1 : ~TsLess(s[i + 1].timestamp, s[i].timestamp)

\* a quotient q equals n / d (d > 0)
QuotIs(q, n, d) == q.num * d = n * q.den

IsCall(name) == ret.op = name /\ ret.raised = "no"

IsSummaryCall ==
    IsCall("calculate_global_pnl_summary") \/ IsCall("calculate_market_pnl_summary")

\* net YES-equivalent shares of one trade: +shares for Buy/YES and Sell/NO,
\* -shares for Buy/NO and Sell/YES
SignedShares(t) ==
    IF (ContainsBuy(t.type) /\ t.side = "YES") \/ (ContainsSell(t.type) /\ t.side = "NO")
    THEN t.shares ELSE 0 - t.shares

SignedSharesSeq(s) == [i \in 1..Len(s) |-> SignedShares(s[i])]

IsBuyOrSell(s) == \A i \in 1..Len(s) : ContainsBuy(s[i].type) \/ ContainsSell(s[i].type)

\* C1: for trades of Buy and Sell types, the exposure column of calculate_pnl
\* and net_shares of the enhanced chart are, at every index i, the sum over
\* the sorted trades 1..i of +shares for Buy/YES, -shares for Buy/NO, -shares
\* for Sell/YES and +shares for Sell/NO.
C1_ExposureIsSignedShareSum ==
    /\ IsCall("calculate_pnl") /\ trades # <<>> /\ IsBuyOrSell(trades) =>
            \A i \in 1..Len(ret.df.rows) :
                ret.df.exposure[i] = Sum(SignedSharesSeq(Prefix(ret.df.rows, i)))
    /\ IsCall("generate_enhanced_chart") /\ trades # <<>> /\ IsBuyOrSell(trades) =>
            \A i \in 1..Len(ret.sorted_trades) :
                ret.net_shares[i] = Sum(SignedSharesSeq(Prefix(ret.sorted_trades, i)))

\* the cost all trades of s with the given base type sum to
CostOfBase(s, base) ==
    Sum([i \in 1..Len(s) |-> IF base_type(s[i].type) = base THEN s[i].cost ELSE 0])

\* C2: a type is Buy-like or Sell-like by substring, Buy-like when it holds
\* neither "Buy" nor "Sell"; the exposure column, the cost basis and
\* total_invested / total_returned all follow that classification: a
\* Buy-like trade adds its shares to the counter of calculate_pnl and its
\* cost to the cost basis and to total_invested, a Sell-like trade subtracts
\* them and counts in total_returned, and no trade is left out.
C2_OneClassificationEverywhere ==
    /\ IsCall("calculate_pnl") /\ trades # <<>> =>
            \A i \in 1..Len(ret.df.rows) :
                ret.df.exposure[i] - (IF i = 1 THEN 0 ELSE ret.df.exposure[i - 1])
                    = IF base_type(ret.df.rows[i].type) = "Buy"
                      THEN ret.df.rows[i].shares ELSE 0 - ret.df.rows[i].shares
    /\ IsCall("generate_enhanced_chart") /\ trades # <<>> =>
            \A i \in 1..Len(ret.sorted_trades) :
                ret.total_cost_basis[i] - (IF i = 1 THEN 0 ELSE ret.total_cost_basis[i - 1])
                    = IF base_type(ret.sorted_trades[i].type) = "Buy"
                      THEN ret.sorted_trades[i].cost ELSE 0 - ret.sorted_trades[i].cost
    /\ IsSummaryCall /\ trades # <<>> =>
            /\ ret.summary.total_invested = CostOfBase(trades, "Buy")
            /\ ret.summary.total_returned = CostOfBase(trades, "Sell")
            /\ ret.summary.total_invested + ret.summary.total_returned
                    = Sum(Column(trades, "cost"))

\* +cost of a trade the engine classifies as Buy (its type is in the Buy
\* list), -cost of any other, whatever the side
SignedCost(t) == IF t.type \in BuyTypes THEN t.cost ELSE 0 - t.cost

SignedCostSeq(s) == [i \in 1..Len(s) |-> SignedCost(s[i])]

BuyYesThenSellYes ==
    <<Trade(Datetime(1), 60, 10, 100, "Buy", "YES", 10),
      Trade(Datetime(2), 70, 10, 70, "Sell", "YES", -5)>>

\* C3: the cost basis at index i is the sum over the sorted trades 1..i of
\* +cost for Buy-classified and -cost for Sell-classified trades, whatever
\* the side; Buy/YES (cost 100, shares 10) then Sell/YES (cost 70, shares 10)
\* gives exposure [10, 0] and cost basis [100, 30].
C3_CostBasisIsSignedCostSum ==
    IsCall("generate_enhanced_chart") /\ trades # <<>> =>
        /\ \A i \in 1..Len(ret.sorted_trades) :
                ret.total_cost_basis[i] = Sum(SignedCostSeq(Prefix(ret.sorted_trades, i)))
        /\ trades = BuyYesThenSellYes =>
                ret.net_shares = <<10, 0>> /\ ret.total_cost_basis = <<100, 30>>

C3_Witness ==
    /\ IsCall("generate_enhanced_chart")
    /\ trades = BuyYesThenSellYes
    /\ ret.net_shares = <<10, 0>>
    /\ ret.total_cost_basis = <<100, 30>>

\* C4: at every index i the mark-to-market PnL is
\* (exposure after trade i) * (price of trade i / 100) - (cost basis after
\* trade i), and the trades after i have no part in it.
C4_MarkToMarketAtEachIndex ==
    IsCall("generate_enhanced_chart") /\ trades # <<>> =>
        \A i \in 1..Len(ret.sorted_trades) :
            /\ QuotIs(ret.running_pnl[i],
                      ret.net_shares[i] * ret.sorted_trades[i].price
                          - 100 * ret.total_cost_basis[i],
                      100)
            /\ ret.running_pnl[i]
                    = generate_enhanced_chart(Prefix(ret.sorted_trades, i)).running_pnl[i]

\* after Buy/YES at 60 and Sell/YES at 70: 10 * 0.60 - 100 and 0 * 0.70 - 30
C4_Witness ==
    /\ IsCall("generate_enhanced_chart")
    /\ trades = BuyYesThenSellYes
    /\ QuotIs(ret.running_pnl[1], -94, 1)
    /\ QuotIs(ret.running_pnl[2], -30, 1)

\* C5: calculate_pnl returns one row per input trade, none dropped or
\* duplicated, in ascending timestamp order, and an empty result for an
\* empty list; it does not raise.
C5_OneRowPerTradeInTimestampOrder ==
    ret.op = "calculate_pnl" =>
        /\ ret.raised = "no"
        /\ Len(ret.df.rows) = Len(trades)
        /\ \A t \in Range(trades) \cup Range(ret.df.rows) :
                Count(ret.df.rows, t) = Count(trades, t)
        /\ IsSortedByTimestamp(ret.df.rows)
        /\ trades # <<>> =>
                /\ Len(ret.df.cumulative_pnl) = Len(trades)
                /\ Len(ret.df.exposure) = Len(trades)

\* a list given latest first comes back earliest first
C5_Witness ==
    /\ IsCall("calculate_pnl")
    /\ Len(trades) = 2
    /\ TsLess(trades[2].timestamp, trades[1].timestamp)
    /\ ret.df.rows = <<trades[2], trades[1]>>

\* C6: the values at index i come from the sorted trades 1..i alone:
\* cumulative_pnl[i] is the sum of their pnl, and the realized PnL, the
\* exposure and the cost basis computed from the first i sorted trades are
\* the first i values computed from all of them.
C6_NoLookahead ==
    /\ IsCall("calculate_pnl") /\ trades # <<>> =>
            \A i \in 1..Len(ret.df.rows) :
                /\ ret.df.cumulative_pnl[i] = Sum(Column(Prefix(ret.df.rows, i), "pnl"))
                /\ \A r \in calculate_pnl(Prefix(ret.df.rows, i)) :
                        /\ r.df.rows = Prefix(ret.df.rows, i) =>
                            /\ r.df.cumulative_pnl = Prefix(ret.df.cumulative_pnl, i)
                            /\ r.df.exposure = Prefix(ret.df.exposure, i)
    /\ IsCall("generate_enhanced_chart") /\ trades # <<>> =>
            \A i \in 1..Len(ret.sorted_trades) :
                LET r == generate_enhanced_chart(Prefix(ret.sorted_trades, i))
                IN /\ r.net_shares = Prefix(ret.net_shares, i)
                   /\ r.total_cost_basis = Prefix(ret.total_cost_basis, i)

C6_Witness ==
    /\ IsCall("calculate_pnl")
    /\ Len(trades) = 2
    /\ ret.df.trade_pnl = <<10, -5>>
    /\ ret.df.cumulative_pnl = <<10, 5>>

\* C7: no operation changes a field of a Trade: every Trade of the list still
\* has the fields it was created with, its timestamp a datetime.
C7_TradesNeverMutated ==
    /\ trades = created
    /\ \A i \in 1..Len(trades) : trades[i].timestamp.kind = "datetime"

PnlCount(s, Test(_)) == Cardinality({i \in 1..Len(s) : Test(s[i])})

HasField(r, name) == name \in DOMAIN r

\* C8: every summary carries winning_trades, losing_trades and
\* breakeven_trades, the numbers of trades with pnl > 0, pnl < 0 and
\* pnl = 0; they add up to total_trades, which is len(trades).
C8_CountsPartitionTheTrades ==
    IsSummaryCall =>
        /\ HasField(ret.summary, "winning_trades")
        /\ HasField(ret.summary, "losing_trades")
        /\ HasField(ret.summary, "breakeven_trades")
        /\ ret.summary.winning_trades = PnlCount(trades, IsWin)
        /\ ret.summary.losing_trades = PnlCount(trades, IsLoss)
        /\ ret.summary.breakeven_trades = PnlCount(trades, IsBreakeven)
        /\ ret.summary.winning_trades + ret.summary.losing_trades
                + ret.summary.breakeven_trades = ret.summary.total_trades
        /\ ret.summary.total_trades = Len(trades)

CountFields == {"total_trades", "total_pnl", "winning_trades", "losing_trades",
                "breakeven_trades", "total_invested", "total_returned"}

QuotFields == {"win_rate", "avg_pnl", "roi"}

\* C9: for an empty list both summaries return, without raising, a record
\* with every numeric field of the non-empty case (total_volume too for the
\* global one), each 0.
C9_EmptySummaryHasEveryField ==
    ret.op \in {"calculate_global_pnl_summary", "calculate_market_pnl_summary"}
        /\ trades = <<>> =>
            /\ ret.raised = "no"
            /\ \A f \in CountFields : HasField(ret.summary, f) /\ ret.summary[f] = 0
            /\ \A f \in QuotFields : HasField(ret.summary, f) /\ ret.summary[f].num = 0
            /\ ret.op = "calculate_global_pnl_summary" =>
                    HasField(ret.summary, "total_volume") /\ ret.summary.total_volume = 0

PnlsAre(s, pnls) == Column(s, "pnl") = pnls

\* C10: win_rate is winning / (winning + losing) * 100, breakeven trades
\* not in the denominator, and 0 when no trade won or lost; all winners give
\* 100, all losers 0, and pnl [10, 20, -5] gives total_pnl 25, 2 winners,
\* 1 loser.
C10_WinRateExcludesBreakeven ==
    IsSummaryCall =>
        LET w == PnlCount(trades, IsWin)
            l == PnlCount(trades, IsLoss)
        IN /\ ret.summary.winning_trades = w
           /\ ret.summary.losing_trades = l
           /\ w + l > 0 => QuotIs(ret.summary.win_rate, w * 100, w + l)
           /\ w + l = 0 => QuotIs(ret.summary.win_rate, 0, 1)
           /\ w > 0 /\ l = 0 => QuotIs(ret.summary.win_rate, 100, 1)
           /\ w = 0 => QuotIs(ret.summary.win_rate, 0, 1)
           /\ PnlsAre(trades, <<10, 20, -5>>) =>
                    /\ ret.summary.total_pnl = 25
                    /\ ret.summary.winning_trades = 2
                    /\ ret.summary.losing_trades = 1
                    /\ QuotIs(ret.summary.win_rate, 200, 3)

C10_Witness ==
    /\ IsCall("calculate_global_pnl_summary")
    /\ PnlsAre(trades, <<10, 20, -5>>)
    /\ ret.summary.total_pnl = 25
    /\ QuotIs(ret.summary.win_rate, 200, 3)

\* C11: roi is total_pnl / total_invested * 100 whenever total_invested is
\* not zero, whatever its sign, and 0 when total_invested is 0; avg_pnl is
\* total_pnl / total_trades, and 0 for no trades; no input raises.
C11_RoiForEveryNonZeroInvestment ==
    /\ IsSummaryCall =>
        LET s == ret.summary
        IN /\ s.total_invested # 0 =>
                QuotIs(s.roi, s.total_pnl * 100, s.total_invested)
           /\ s.total_invested = 0 => QuotIs(s.roi, 0, 1)
           /\ s.total_trades # 0 => QuotIs(s.avg_pnl, s.total_pnl, s.total_trades)
           /\ s.total_trades = 0 => QuotIs(s.avg_pnl, 0, 1)
    /\ IsCall("calculate_roi") =>
        /\ ret.investment # 0 => QuotIs(ret.result, ret.pnl * 100, ret.investment)
        /\ ret.investment = 0 => QuotIs(ret.result, 0, 1)
    /\ ret.op \in {"calculate_global_pnl_summary", "calculate_market_pnl_summary",
                   "calculate_roi"} => ret.raised = "no"

IsFilterCall ==
    /\ ret.op \in {"filter_by_date", "filter_by_trade_type", "filter_by_side",
                   "filter_by_pnl"}
    /\ ret.raised = "no"

\* C12: each of the four filters leaves the list it is given unchanged (same
\* elements, same order, same length) and returns a new list, an object
\* distinct from the list it was given, for every combination of parameters,
\* omitted bounds and allow-sets included.
C12_FiltersReturnANewList ==
    IsFilterCall => trades = created /\ ~ret.same_object

\* C13: a filter applied again, with the same parameters, to the list it
\* returned returns that list: f(f(trades, p), p) = f(trades, p).
C13_FilterIdempotence ==
    /\ IsCall("filter_by_date") =>
        filter_by_date(ret.result, ret.args.start, ret.args.end).result = ret.result
    /\ IsCall("filter_by_trade_type") =>
        filter_by_trade_type(ret.result, ret.args.types).result = ret.result
    /\ IsCall("filter_by_side") =>
        filter_by_side(ret.result, ret.args.sides).result = ret.result
    /\ IsCall("filter_by_pnl") =>
        filter_by_pnl(ret.result, ret.args.min_pnl, ret.args.max_pnl).result = ret.result

\* a type filter that dropped the first trade and kept the second
C13_Witness ==
    /\ IsCall("filter_by_trade_type")
    /\ ~IsFalsy(ret.args.types)
    /\ Len(trades) = 2
    /\ ret.result = <<trades[2]>>
    /\ trades[1].type \notin ret.args.types.v

\* a is b with some elements left out
IsSubSeqOf(a, b) ==
    \E f \in [1..Len(a) -> 1..Len(b)] :
        /\ \A i \in 1..Len(a) : a[i] = b[f[i]]
        /\ \A i \in 1..Len(a) - 1 : f[i] < f[i + 1]

\* the k-th of the four filters applied to ts with the parameters p
FilterStep(k, ts, p) ==
    CASE k = 1 -> filter_by_date(ts, p.start_date, p.end_date).result
      [] k = 2 -> filter_by_trade_type(ts, p.types).result
      [] k = 3 -> filter_by_side(ts, p.sides).result
      [] k = 4 -> filter_by_pnl(ts, p.min_pnl, p.max_pnl).result

RECURSIVE Chain(_, _, _, _)
\* the first n filters of order applied one after the other
Chain(ts, p, order, n) ==
    IF n = 0 THEN ts ELSE FilterStep(order[n], Chain(ts, p, order, n - 1), p)

\* the trade passes each of the four filters taken alone
InEveryFilter(t, ts, p) == \A k \in 1..4 : t \in Range(FilterStep(k, <<t>>, p))

\* C14: the date, type, side and PnL filters chained in any order return the
\* list apply_filters returns, which holds the trades that pass all four
\* filters and is a sub-sequence of the input.
C14_ChainIsOrderIndependent ==
    IsCall("apply_filters") /\ ~ret.args.market_slug.some =>
        /\ \A order \in Perms(4) : Chain(trades, ret.args, order, 4) = ret.result
        /\ LET Pass(t) == InEveryFilter(t, trades, ret.args)
           IN ret.result = SelectSeq(trades, Pass)
        /\ IsSubSeqOf(ret.result, trades)

\* all four filters given, one trade kept and one dropped
C14_Witness ==
    /\ IsCall("apply_filters")
    /\ ~ret.args.market_slug.some
    /\ ret.args.start_date.some /\ ret.args.end_date.some
    /\ ret.args.types.some /\ ret.args.sides.some
    /\ ret.args.min_pnl.some
    /\ Len(trades) = 2
    /\ Len(ret.result) = 1

\* the first and the last instant of a day, and the days a timestamp is on
StartOfDayAt(day) == day * SecondsPerDay
NextDayAt(day) == (day + 1) * SecondsPerDay
OnDay(ts, day) == StartOfDayAt(day) <= ts.t /\ ts.t < NextDayAt(day)

\* 00:00:00 of the start day is not after ts
NotBeforeStart(ts, start) == ~start.some \/ StartOfDayAt(start.v) <= ts.t

\* C15: filter_by_date keeps a trade exactly when its timestamp, made naive,
\* is not before 00:00:00 of the start day (if a start is given) and not
\* after 23:59:59 of the end day (if an end is given), so every trade whose
\* timestamp is on the end day is kept; with neither bound every trade is
\* returned; with a start day after every trade the result is the empty
\* list and nothing is raised.
C15_DateFilterKeepsTheWholeEndDay ==
    ret.op = "filter_by_date" =>
        /\ ret.raised = "no"
        /\ LET Keep(t) ==
                /\ NotBeforeStart(t.timestamp, ret.args.start)
                /\ \/ ~ret.args.end.some
                   \/ ~TsLess(EndOfDay(ret.args.end.v), normalize_datetime(t.timestamp))
           IN ret.result = SelectSeq(trades, Keep)
        /\ \A i \in 1..Len(trades) :
                /\ ret.args.end.some
                /\ OnDay(trades[i].timestamp, ret.args.end.v)
                /\ NotBeforeStart(trades[i].timestamp, ret.args.start)
                => trades[i] \in Range(ret.result)
        /\ ~ret.args.start.some /\ ~ret.args.end.some => ret.result = trades
        /\ (/\ ret.args.start.some
            /\ \A i \in 1..Len(trades) :
                    trades[i].timestamp.t < StartOfDayAt(ret.args.start.v))
           => ret.result = <<>>

\* the test each of the three filters is said to apply to a trade
InAllowSet(x, allow) == x \in allow.v
WithinPnlBounds(pnl, min_pnl, max_pnl) ==
    /\ ~min_pnl.some \/ min_pnl.v <= pnl
    /\ ~max_pnl.some \/ pnl <= max_pnl.v

\* what the PnL filter returns: the trades within the bounds, in input order
PnlFilterIsExact ==
    IsCall("filter_by_pnl") =>
        LET Keep(t) == WithinPnlBounds(t.pnl, ret.args.min_pnl, ret.args.max_pnl)
        IN ret.result = SelectSeq(trades, Keep)

\* C16 as stated: the type and the side filter return the trades whose type
\* (side) is a member of the supplied allow-set, the PnL filter the trades
\* with min_pnl <= pnl <= max_pnl, each bound applied only when supplied,
\* in input order.
C16_FiltersApplyTheirPredicate ==
    /\ IsCall("filter_by_trade_type") /\ ret.args.types.some =>
        LET Keep(t) == InAllowSet(t.type, ret.args.types)
        IN ret.result = SelectSeq(trades, Keep)
    /\ IsCall("filter_by_side") /\ ret.args.sides.some =>
        LET Keep(t) == InAllowSet(t.side, ret.args.sides)
        IN ret.result = SelectSeq(trades, Keep)
    /\ PnlFilterIsExact

\* C16, amended: the type and the side filter return the trades whose type
\* (side) is a member of the allow-set when the allow-set is supplied and
\* not empty, and every trade when it is omitted or empty; the PnL filter
\* returns the trades with min_pnl <= pnl <= max_pnl, both bounds inclusive
\* and each applied only when supplied; the trades come in input order, a
\* trade equal to a bound is kept, and a non-empty allow-set naming no type
\* of the list gives the empty list.
C16_FiltersApplyTheirPredicateWhenNotEmpty ==
    /\ IsCall("filter_by_trade_type") =>
        LET Keep(t) == InAllowSet(t.type, ret.args.types)
        IN /\ ~IsFalsy(ret.args.types) => ret.result = SelectSeq(trades, Keep)
           /\ IsFalsy(ret.args.types) => ret.result = trades
           /\ (/\ ~IsFalsy(ret.args.types)
               /\ \A i \in 1..Len(trades) : trades[i].type \notin ret.args.types.v)
              => ret.result = <<>>
    /\ IsCall("filter_by_side") =>
        LET Keep(t) == InAllowSet(t.side, ret.args.sides)
        IN /\ ~IsFalsy(ret.args.sides) => ret.result = SelectSeq(trades, Keep)
           /\ IsFalsy(ret.args.sides) => ret.result = trades
    /\ PnlFilterIsExact
    /\ IsCall("filter_by_pnl") =>
        \A i \in 1..Len(trades) :
            /\ \/ ret.args.min_pnl.some /\ trades[i].pnl = ret.args.min_pnl.v
               \/ ret.args.max_pnl.some /\ trades[i].pnl = ret.args.max_pnl.v
            /\ WithinPnlBounds(trades[i].pnl, ret.args.min_pnl, ret.args.max_pnl)
            => trades[i] \in Range(ret.result)

\* a PnL filter that kept a trade equal to its lower bound and dropped a
\* trade below it
C16_Witness ==
    /\ IsCall("filter_by_pnl")
    /\ ret.args.min_pnl.some
    /\ Len(trades) = 2
    /\ trades[1].pnl < ret.args.min_pnl.v
    /\ trades[2].pnl = ret.args.min_pnl.v
    /\ ret.result = <<trades[2]>>

IsParseCall == ret.op = "_parse_timestamp"

\* C17: _parse_timestamp raises for no input: None, 0, every int and float
\* (negative, non-finite, out of range such as 1e12 taken as seconds), every
\* string (ISO-8601, numeric such as 'inf', garbage) and every datetime-like
\* value give a naive datetime, and an input that cannot be parsed gives the
\* epoch 1970-01-01T00:00:00.
C17_ParseTimestampNeverRaises ==
    IsParseCall =>
        /\ ret.raised = "no"
        /\ ret.result.kind = "datetime"
        /\ ret.result.tzinfo = "None"
        /\ ret.value.type = "str" /\ ret.value.form = "text" => ret.result = Epoch

\* the number of a numeric value or of a numeric string
IsNumeric(value) == IsNumber(value) \/ (value.type = "str" /\ value.form = "numeric")
NumberOf(value) == IF IsNumber(value) THEN value ELSE value.num

\* v > 1e12
Above1e12(num) ==
    IF num.class = "finite"
    THEN num.hi > Million \/ (num.hi = Million /\ (num.lo > 0 \/ num.us > 0))
    ELSE num.class \in {"inf", "huge"}

\* what reading num as epoch milliseconds when it is above 1e12, and as
\* epoch seconds otherwise, gives
ByTheThreshold(num) ==
    IF Above1e12(num) THEN utcfromtimestamp(DivideBy1000(num)) ELSE utcfromtimestamp(num)

\* the call ended as the outcome says
EndedAs(outcome) ==
    /\ ret.raised = outcome.raised
    /\ outcome.raised = "no" => ret.result = outcome.value

\* 1000 * num
Times1000(num) ==
    [num EXCEPT !.hi = num.hi * 1000 + num.lo \div 1000,
                !.lo = (num.lo % 1000) * 1000]

\* s counts the seconds of an instant a datetime holds, and s <= 1e12 < 1000 * s
IsSecondsOfAnInstant(num) ==
    /\ num.class = "finite" /\ num.us = 0
    /\ ~Above1e12(num) /\ Above1e12(Times1000(num))
    /\ utcfromtimestamp(num).raised = "no"

\* C18: a numeric value, or the number of a numeric string, is read as epoch
\* milliseconds exactly when it is above 1e12 and as epoch seconds
\* otherwise (a numeric string whose reading raises ValueError goes on to
\* the generic parse); an instant given as seconds s and as milliseconds
\* 1000 * s, s <= 1e12 < 1000 * s, parses to the same naive datetime;
\* 1704067200 and 1704067200000 both give 2024-01-01T00:00:00.
C18_MillisecondsAbove1e12 ==
    IsParseCall /\ IsNumeric(ret.value) =>
        LET num == NumberOf(ret.value)
        IN /\ IsNumber(ret.value) => EndedAs(ByTheThreshold(num))
           /\ ByTheThreshold(num).raised # "ValueError" => EndedAs(ByTheThreshold(num))
           /\ IsSecondsOfAnInstant(num) =>
                /\ ret.raised = "no"
                /\ ret.result = DatetimeTz(num.hi * Million + num.lo, 0, "None")
                /\ parse_timestamp(IF IsNumber(ret.value) THEN Times1000(num)
                                   ELSE NumStr(Times1000(num)))
                    = Returns(ret.result)
           /\ num \in {PyInt(1704067200), Num("int", 1704067, 200000)} =>
                ret.raised = "no" /\ ret.result = Datetime(1704067200)

\* 1704067200000 was parsed to 2024-01-01T00:00:00
C18_Witness ==
    /\ IsParseCall
    /\ ret.value = Num("int", 1704067, 200000)
    /\ ret.raised = "no"
    /\ ret.result = Datetime(1704067200)

\* load_trades returned one Trade for each raw record of the file
IsLoaded ==
    /\ IsCall("load_trades")
    /\ ret.file.raw_trades # <<>>
    /\ Len(ret.result) = Len(ret.file.raw_trades)

\* the side the raw record gives: the primary field, else the outcome
\* index (0 is YES, any other index NO), else YES
SideByTheRule(t) ==
    IF Truthy(Get(t, "side")) THEN Get(t, "side").s
    ELSE IF Has(t, "outcomeIndex") /\ t.outcomeIndex.type # "NoneType"
         THEN IF t.outcomeIndex = PyInt(0) THEN "YES" ELSE "NO"
    ELSE "YES"

\* C19: every Trade load_trades produces has side 'YES' or 'NO', whatever
\* the raw record: the primary field, else outcomeIndex (0 gives YES, any
\* other index NO), else YES; its market and market_slug are never empty
\* or null.
C19_SideIsYesOrNo ==
    IsLoaded =>
        \A i \in 1..Len(ret.result) :
            /\ ret.result[i].side \in {"YES", "NO"}
            /\ ret.result[i].side = SideByTheRule(ret.file.raw_trades[i])
            /\ ret.result[i].market \notin {"", "None"}
            /\ ret.result[i].market_slug \notin {"", "None"}

\* the number a raw value stands for, 0 for a missing, null or falsy one
NumberOrZero(value) ==
    IF ~Truthy(value) THEN 0
    ELSE IF IsNumber(value) THEN value.hi * Million + value.lo
    ELSE value.num.hi * Million + value.num.lo

\* C20: with collateralAmount in the raw record, cost, pnl and shares are
\* the raw collateralAmount, pnl and outcomeTokenAmount divided by
\* 1,000,000; without it they are the raw cost, pnl and shares unscaled; a
\* missing, null or falsy raw value gives 0 in both shapes, and price is
\* never rescaled.
C20_ShapeFollowsCollateralAmount ==
    IsLoaded =>
        \A i \in 1..Len(ret.result) :
            LET t == ret.file.raw_trades[i]
                trade == ret.result[i]
            IN /\ Has(t, "collateralAmount") =>
                    /\ trade.cost * Million = NumberOrZero(Get(t, "collateralAmount"))
                    /\ trade.pnl * Million = NumberOrZero(Get(t, "pnl"))
                    /\ trade.shares * Million = NumberOrZero(Get(t, "outcomeTokenAmount"))
               /\ ~Has(t, "collateralAmount") =>
                    /\ trade.cost = NumberOrZero(Get(t, "cost"))
                    /\ trade.pnl = NumberOrZero(Get(t, "pnl"))
                    /\ trade.shares = NumberOrZero(Get(t, "shares"))
               /\ trade.price = NumberOrZero(Get(t, "price"))

\* a file with a record of each shape: a null collateralAmount with a pnl
\* in micro-units, and a record without collateralAmount
C20_Witness ==
    /\ IsLoaded
    /\ Len(ret.result) = 2
    /\ ret.file.raw_trades[1].collateralAmount = PyNone
    /\ ret.file.raw_trades[1].pnl = PyInt(-2000000)
    /\ ret.result[1].cost = 0 /\ ret.result[1].pnl = -2 /\ ret.result[1].shares = 4
    /\ ~Has(ret.file.raw_trades[2], "collateralAmount")
    /\ ret.result[2].cost = 7 /\ ret.result[2].pnl = -2000000
    /\ ret.result[2].shares = 9 /\ ret.result[2].price = 60

WellFormed(raw_trades) ==
    SelectSeq(raw_trades, LAMBDA t : Normalize(t).raised = "no")

\* C22: when records of a batch fail normalization, load_trades skips only
\* those and returns the Trades of all the well-formed records in their
\* original order; one malformed record never empties the whole batch.
C22_SkipsOnlyTheMalformedRecords ==
    (IsCall("load_trades") /\ ret.file.extension = ".json") =>
        LET kept == WellFormed(ret.file.raw_trades)
        IN ret.result = [i \in 1..Len(kept) |-> Normalize(kept[i]).value]

\* C23: loading a file whose extension is not .json, .csv or .xlsx ends in
\* an error outcome, which the caller can tell from an empty list loaded
\* successfully.
C23_UnsupportedExtensionIsAHardFailure ==
    (ret.op = "load_trades" /\ ret.file.extension \notin {".json", ".csv", ".xlsx"}) =>
        ret.raised # "no"

\* C27: every Trade load_trades produces has shares >= 0, whatever the raw
\* record and its shape, a negative raw share amount included.
C27_SharesAreNonNegative ==
    IsLoaded => \A i \in 1..Len(ret.result) : ret.result[i].shares >= 0

\* the trades of the list that no trade of the list is later than
LatestTrades == {t \in Range(trades) : \A u \in Range(trades) : u.timestamp.t <= t.timestamp.t}

\* the threshold of the call in cents: 50 for 0.5, 75 for 0.75
CentsOfTheCall == IF ret.threshold = [num |-> 1, den |-> 2] THEN 50 ELSE 75

\* C24: infer_resolved_side_from_trades returns (None, None) for an empty
\* list; otherwise, with L the trade of latest timestamp, (None, L) when
\* L.side is neither YES nor NO, (L.side, L) when L.price is at or above
\* the threshold in cents (50 by default), and (the opposite side, L) when
\* L.price is below it.
C24_InferredSideFollowsTheLatestPrice ==
    IsCall("infer_resolved_side_from_trades") =>
        IF trades = <<>> THEN ret.inferred = None /\ ret.latest = None
        ELSE \E L \in LatestTrades :
                /\ ret.latest = Some(L)
                /\ L.side \notin {"YES", "NO"} => ret.inferred = None
                /\ (L.side \in {"YES", "NO"} /\ L.price >= CentsOfTheCall) =>
                        ret.inferred = Some(L.side)
                /\ (L.side \in {"YES", "NO"} /\ L.price < CentsOfTheCall) =>
                        ret.inferred = Some(CHOOSE s \in {"YES", "NO"} : s # L.side)

\* the default threshold, the later trade second in the list and priced
\* exactly 50: its own side is inferred
C24_Witness ==
    /\ IsCall("infer_resolved_side_from_trades")
    /\ ret.threshold = PRICE_RESOLUTION_THRESHOLD
    /\ Len(trades) = 2
    /\ trades[1].timestamp.t < trades[2].timestamp.t
    /\ trades[2].price = 50 /\ trades[2].side = "NO"
    /\ trades[1].side = "YES"
    /\ ret.inferred = Some("NO")
    /\ ret.latest = Some(trades[2])

\* the signal a trade carries, None when it carries none
SignalOf(t) ==
    IF "resolution" \in DOMAIN t THEN Some(t.resolution)
    ELSE IF t.type \in {"Claim", "Won", "Loss"} THEN Some(t.side)
    ELSE None

\* C28: detect_market_resolution returns, for any order of the list, the
\* signal of the latest-timestamp trade that carries an explicit
\* resolution attribute or a terminal type (Claim, Won, Loss), and None
\* when no trade carries one.
C28_ResolutionOfTheLatestSignal ==
    IsCall("detect_market_resolution") =>
        LET signalled == {t \in Range(trades) : SignalOf(t) # None}
        IN IF signalled = {} THEN ret.result = None
           ELSE \E t \in signalled :
                    /\ \A u \in signalled : u.timestamp.t <= t.timestamp.t
                    /\ ret.result = SignalOf(t)

\* C25: calculate_pnl orders the rows by a stable ascending sort on
\* timestamp: the rows are the trades in ascending timestamp order, and
\* any two trades of equal timestamp keep the relative order they have in
\* the input.
C25_PnlSortIsStable ==
    (IsCall("calculate_pnl") /\ trades # <<>>) =>
        \E f \in Perms(Len(trades)) :
            /\ ret.df.rows = [i \in 1..Len(trades) |-> trades[f[i]]]
            /\ \A i, j \in 1..Len(trades) :
                i < j => \/ TsLess(trades[f[i]].timestamp, trades[f[j]].timestamp)
                         \/ /\ trades[f[i]].timestamp = trades[f[j]].timestamp
                            /\ f[i] < f[j]

\* C26: through AnalysisService.apply_filters an allow-set of types or of
\* sides that the caller supplied empty yields the empty result, and an
\* omitted one yields all the trades; the two are never treated alike.
C26_EmptyAllowSetExcludesEverything ==
    IsCall("apply_filters") =>
        /\ (ret.args.types = Some({}) \/ ret.args.sides = Some({})) => ret.result = <<>>
        /\ (\A k \in DOMAIN ret.args : ret.args[k] = None) => ret.result = trades

\* what trade i of the chart's sorted list added to the net YES shares
ChartContribution(i) ==
    ret.net_shares[i] - (IF i = 1 THEN 0 ELSE ret.net_shares[i - 1])

\* C29: the label of the chart agrees with the exposure sign rule for every
\* trade, whatever its type string: a trade is labelled Long YES iff it
\* added its shares to the net YES shares (a Buy-classified YES trade or a
\* Sell-classified NO trade) and Short YES iff it subtracted them.
C29_LabelAgreesWithExposureSign ==
    (IsCall("generate_enhanced_chart") /\ trades # <<>>) =>
        \A i \in 1..Len(ret.sorted_trades) :
            LET t == ret.sorted_trades[i]
            IN /\ ret.long_yes[i] <=> ChartContribution(i) = t.shares
               /\ ~ret.long_yes[i] <=> ChartContribution(i) = 0 - t.shares
               /\ ret.long_yes[i] <=> \/ t.type \in BuyTypes /\ t.side = "YES"
                                      \/ t.type \notin BuyTypes /\ t.side = "NO"

\* a Claim/NO trade labelled Long YES after a Sell/YES trade labelled
\* Short YES
C29_Witness ==
    /\ IsCall("generate_enhanced_chart")
    /\ Len(trades) = 2
    /\ ret.sorted_trades[1].type = "Sell" /\ ret.sorted_trades[1].side = "YES"
    /\ ret.sorted_trades[2].type = "Claim" /\ ret.sorted_trades[2].side = "NO"
    /\ ret.long_yes = <<FALSE, TRUE>>
    /\ ret.net_shares[1] = 0 - ret.sorted_trades[1].shares
    /\ ret.net_shares[2] = ret.net_shares[1] + ret.sorted_trades[2].shares

IsFetch == ret.op = "fetch_trade_history"

RECURSIVE Received(_)
\* the trades of the pages the server sent, in the order it sent them
Received(responses) ==
    IF responses = <<>> THEN <<>>
    ELSE Received(Front(responses))
         \o (IF Last(responses).kind = "ok" THEN Last(responses).data ELSE <<>>)

\* the pages are requested in order, 1, 2, 3, ..., none twice, at most
\* MaxTotalCount + 1 of them, and the call returns every trade received
FetchIsOrderedAndComplete ==
    IsFetch =>
        /\ \A i \in 1..Len(ret.requested) : ret.requested[i] = i
        /\ Len(ret.requested) <= MaxTotalCount + 1
        /\ ret.pc = "returned" => ret.all_trades = Received(ret.responses)

====
